---- MODULE Spec2Model ----
(***************************************************************************)
(* The wrapper class of                                                    *)
(* ManufacturingNet/deep_learning_methods/logistic_regression.py as a      *)
(* state machine: one wrapper object, its setters, its accessors,          *)
(* _check_inputs() and logistic_regression() (the spec's run()).           *)
(*                                                                         *)
(* Python values are records with a "kind" (the type's name).  The wrapper *)
(* object is the variable self, the dictionary of its attributes: an       *)
(* attribute Python never assigned is not in DOMAIN self, and reading it   *)
(* raises AttributeError.                                                  *)
(***************************************************************************)
EXTENDS Naturals, Sequences, FiniteSets, TLC

VARIABLES
    self,      \* the wrapper object's attributes (its __dict__)
    nruns,     \* calls of logistic_regression() so far; names the object line 197 builds
    last,      \* the method called last
    ret,       \* what that call returned
    out,       \* the lines that call printed
    raised,    \* the exception that escaped that call, "none" when it returned
    calls,     \* the callables of lines 1-4 the last logistic_regression() invoked
    env,       \* how the library behaved in that call (NoEnv when it was not reached)
    scenario   \* history: progress along "run, set_attributes, run" (see Scenario_run)

vars == <<self, nruns, last, ret, out, raised, calls, env, scenario>>

\* ---------------------------------------------------------------- bounds

\* Row counts of the arrays given to the wrapper range over 0..MaxRows.
MaxRows == 2
\* At most MaxRuns calls of logistic_regression() in a behaviour.
MaxRuns == 2

\* ---------------------------------------------------------------- values

None == [kind |-> "NoneType"]
True == [kind |-> "bool", repr |-> "True"]
False == [kind |-> "bool", repr |-> "False"]
Float(r) == [kind |-> "float", repr |-> r]
Int(r) == [kind |-> "int", repr |-> r]
Str(r) == [kind |-> "str", repr |-> r]
\* A numpy array with n rows: shape[0] = n.
ndarray(n) == [kind |-> "ndarray", rows |-> n]
\* A value with no shape attribute; a Python list stands for all of them.
List == [kind |-> "list", repr |-> "[[0], [1]]"]

\* The values a caller hands to the constructor and to the setters.
DataValues == {None, List} \cup {ndarray(n) : n \in 0..MaxRows}
TestSizeValues == {None, Float("0.25"), Int("1"), True, Str("'abc'")}

\* The classes a type inherits from, itself included (bool is a subclass of int).
Mro(kind) == IF kind = "bool" THEN {"bool", "int", "object"} ELSE {kind, "object"}

\* isinstance(v, types), as on line 258.
isinstance(v, types) == Mro(v.kind) \cap types # {}

\* hasattr(v, "shape"): arrays have a shape, lists do not.
HasShape(v) == v.kind = "ndarray"

\* ------------------------------------------------- the module's namespace

Sklearn == "sklearn.linear_model.LogisticRegression"
Wrapper == "logistic_regression.LogisticRegression"

\* The module-level statements that bind a name, in execution order: the
\* imports of lines 1-4, then the class statement of line 6, which binds
\* the name LogisticRegression again.
ModuleBindings ==
    << [name |-> "LogisticRegression", value |-> Sklearn],
       [name |-> "accuracy_score", value |-> "sklearn.metrics.accuracy_score"],
       [name |-> "roc_auc_score", value |-> "sklearn.metrics.roc_auc_score"],
       [name |-> "train_test_split", value |-> "sklearn.model_selection.train_test_split"],
       [name |-> "np", value |-> "numpy"],
       [name |-> "LogisticRegression", value |-> Wrapper] >>

\* A global name read inside a method, at call time: the binding made last.
Global(name) ==
    LET idx == {i \in 1..Len(ModuleBindings) : ModuleBindings[i].name = name}
        top == CHOOSE i \in idx : \A j \in idx : j <= i
    IN ModuleBindings[top].value

\* The methods the class of lines 6-262 defines.
WrapperMethods ==
    {"__init__", "get_attributes", "get_labels", "get_classes", "get_regression",
     "get_coefficents", "get_n_iter_", "get_accuracy", "get_roc_auc",
     "set_attributes", "set_labels", "set_test_size", "logistic_regression",
     "_check_inputs"}

\* The keyword defaults of __init__ (lines 16-18) other than the data and test_size.
Defaults ==
    [penalty |-> Str("'l2'"), dual |-> False, tol |-> Float("0.0001"),
     C |-> Float("1.0"), fit_intercept |-> True, intercept_scaling |-> Int("1"),
     class_weight |-> None, random_state |-> None, solver |-> Str("'lbfgs'"),
     max_iter |-> Int("100"), multi_class |-> Str("'auto'"), verbose |-> Int("0"),
     warm_start |-> False, n_jobs |-> None, l1_ratio |-> None]

\* __init__: the attributes of a new wrapper object.  No attribute named
\* classes, coefficients or intercept is created.
__init__(attributes, labels, test_size, cfg) ==
    [attributes |-> attributes, labels |-> labels,
     test_size |-> test_size, penalty |-> cfg.penalty, dual |-> cfg.dual,
     tol |-> cfg.tol, C |-> cfg.C,
     fit_intercept |-> cfg.fit_intercept,
     intercept_scaling |-> cfg.intercept_scaling,
     class_weight |-> cfg.class_weight,
     random_state |-> cfg.random_state, solver |-> cfg.solver,
     max_iter |-> cfg.max_iter, multi_class |-> cfg.multi_class,
     verbose |-> cfg.verbose, warm_start |-> cfg.warm_start,
     n_jobs |-> cfg.n_jobs, l1_ratio |-> cfg.l1_ratio,
     regression |-> None, classes_ |-> None, coef_ |-> None,
     intercept_ |-> None, n_iter_ |-> None,
     accuracy |-> None, precision |-> None, recall |-> None, roc_auc |-> None]

\* The configuration keywords line 197-200 passes on, read from the wrapper.
ConfigOf(s) == [k \in DOMAIN Defaults |-> s[k]]

\* An object: its class, its identity and its attributes.
Object(cls, id, dict) == [kind |-> "object", cls |-> cls, id |-> id, dict |-> dict]

\* cls(**cfg) on line 197-200.  The class of this file runs __init__ with
\* the data arguments at their defaults; the library's estimator is opaque
\* and keeps the configuration it was given.
Construct(cls, cfg, id) ==
    IF cls = Wrapper
    THEN Object(cls, id, __init__(None, None, Float("0.25"), cfg))
    ELSE Object(cls, id, cfg)

\* obj.m resolves to a method: the class of this file has those of
\* WrapperMethods; the library's classes are taken to have what is called.
HasMethod(obj, m) == obj.cls = Wrapper => m \in WrapperMethods

\* self.name: the value, or AttributeError when the attribute was never set.
GetAttr(s, name) ==
    IF name \in DOMAIN s
    THEN [ret |-> s[name], raised |-> "none"]
    ELSE [ret |-> None, raised |-> "AttributeError"]

\* self.name = v, creating the attribute when it is new.
SetAttr(s, name, v) ==
    [n \in DOMAIN s \cup {name} |-> IF n = name THEN v ELSE s[n]]

\* ---------------------------------------------------------------- setters

\* set_attributes (lines 163-169).
set_attributes(s, new_attributes) == SetAttr(s, "attributes", new_attributes)

\* set_labels assigning to the attribute of the setter above it.
set_labels_writes_attributes(s, new_labels) == SetAttr(s, "attributes", new_labels)

\* set_labels (lines 171-177).
set_labels(s, new_labels) == SetAttr(s, "labels", new_labels)

\* set_test_size (lines 179-185).
set_test_size(s, new_test_size) == SetAttr(s, "test_size", new_test_size)

\* -------------------------------------------------------------- accessors

get_attributes(s) == GetAttr(s, "attributes")
get_labels(s) == GetAttr(s, "labels")
\* Line 119 reads self.classes; __init__ and line 217 write self.classes_.
get_classes(s) == GetAttr(s, "classes")
get_regression(s) == GetAttr(s, "regression")
\* Line 135 reads self.coef_; line 218 writes self.coefficients.
get_coefficents(s) == GetAttr(s, "coef_")
get_n_iter_(s) == GetAttr(s, "n_iter_")
get_accuracy(s) == GetAttr(s, "accuracy")
get_roc_auc(s) == GetAttr(s, "roc_auc")

\* ---------------------------------------------------------- _check_inputs

AttributesMissing ==
    "attributes is missing; call set_attributes(new_attributes) to fix this! new_attributes should be a populated numpy array of your independent variables."
LabelsMissing ==
    "labels is missing; call set_labels(new_labels) to fix this! new_labels should be a populated numpy array of your dependent variables."
RowsMismatch ==
    "attributes and labels don't have the same number of rows. Make sure the number of samples in each dataset matches!"
TestSizeNotNumber ==
    "test_size must be None or a number; call set_test_size(new_test_size) to fix this!"

Returned(r, lines) == [ret |-> r, out |-> lines, raised |-> "none"]
Raised(x, lines) == [ret |-> None, out |-> lines, raised |-> x]

\* _check_inputs with the test_size check (lines 257-260) left out.
_check_inputs_without_test_size(s) ==
    IF s.attributes = None THEN Returned(False, <<AttributesMissing>>)
    ELSE IF s.labels = None THEN Returned(False, <<LabelsMissing>>)
    ELSE IF ~HasShape(s.attributes) \/ ~HasShape(s.labels)
    THEN Raised("AttributeError", <<>>)
    ELSE IF s.attributes.rows # s.labels.rows
    THEN Returned(False, <<RowsMismatch>>)
    ELSE Returned(True, <<>>)

\* _check_inputs with the first two checks in the other order.
_check_inputs_labels_first(s) ==
    IF s.labels = None THEN Returned(False, <<LabelsMissing>>)
    ELSE IF s.attributes = None THEN Returned(False, <<AttributesMissing>>)
    ELSE IF ~HasShape(s.attributes) \/ ~HasShape(s.labels)
    THEN Raised("AttributeError", <<>>)
    ELSE IF s.attributes.rows # s.labels.rows
    THEN Returned(False, <<RowsMismatch>>)
    ELSE IF s.test_size # None /\ ~isinstance(s.test_size, {"int", "float"})
    THEN Returned(False, <<TestSizeNotNumber>>)
    ELSE Returned(True, <<>>)

\* _check_inputs (lines 234-262).  Line 252 reads .shape of both values
\* (attributes first); a value without one raises AttributeError there,
\* and nothing in the method or in its caller catches it.
_check_inputs(s) ==
    IF s.attributes = None THEN Returned(False, <<AttributesMissing>>)
    ELSE IF s.labels = None THEN Returned(False, <<LabelsMissing>>)
    ELSE IF ~HasShape(s.attributes) \/ ~HasShape(s.labels)
    THEN Raised("AttributeError", <<>>)
    ELSE IF s.attributes.rows # s.labels.rows
    THEN Returned(False, <<RowsMismatch>>)
    ELSE IF s.test_size # None /\ ~isinstance(s.test_size, {"int", "float"})
    THEN Returned(False, <<TestSizeNotNumber>>)
    ELSE Returned(True, <<>>)

\* ---------------------------------------------------- logistic_regression

\* What the library does in one call of logistic_regression(): whether
\* train_test_split, the estimator's fit and roc_auc_score return or raise.
Envs == [split : {"ok", "raise"}, fit : {"ok", "raise"}, roc : {"ok", "raise"}]
NoEnv == [split |-> "unused", fit |-> "unused", roc |-> "unused"]

\* The result of a library call in run number id, kept as the call itself.
Ext(fn, id, args) == [kind |-> "result", fn |-> fn, run |-> id, args |-> args]

\* obj.name for the object line 197 built: of a wrapper, its attribute; of
\* the library's estimator, what fit left there.
ReadAttr(obj, name, id) ==
    IF obj.cls = Wrapper THEN GetAttr(obj.dict, name).ret
    ELSE Ext(name, id, <<>>)

TrainingFailed ==
    "An exception occurred while training the logistic regression model. Check your inputs and try again."
HereIsTheMessage == "Here is the exception message:"
NoFitAttribute == "'LogisticRegression' object has no attribute 'fit'"
LibraryFitError == "<the message of the library's exception>"

\* Line 208: self.regression.fit is looked up, then called; either raises
\* inside the try.
FitRaises(obj, e) == ~HasMethod(obj, "fit") \/ e.fit = "raise"
FitMessage(obj) == IF HasMethod(obj, "fit") THEN LibraryFitError ELSE NoFitAttribute

\* The except clause with line 213 left out.
FitHandler_keeps_classifier(s, msg) ==
    [self |-> s, out |-> <<TrainingFailed, HereIsTheMessage, msg>>]

\* The except clause (lines 209-214): three lines printed, the classifier
\* reference dropped, nothing else assigned.
FitHandler(s, msg) ==
    [self |-> SetAttr(s, "regression", None),
     out |-> <<TrainingFailed, HereIsTheMessage, msg>>]

\* Lines 217-220: the four attributes written after fit.
RecordFit(s, id) ==
    LET clf == s.regression
        s1 == SetAttr(s, "classes_", ReadAttr(clf, "classes_", id))
        s2 == SetAttr(s1, "coefficients", ReadAttr(clf, "coef_", id))
        s3 == SetAttr(s2, "intercept", ReadAttr(clf, "intercept_", id))
    IN SetAttr(s3, "n_iter_", ReadAttr(clf, "n_iter_", id))

\* train_test_split of lines 203-204 when it returns: the four partitions,
\* in the order the call unpacks them.
train_test_split(X, y, test_size, id) ==
    LET split == Ext("train_test_split", id, <<X, y, test_size>>) IN
    [X_train |-> Ext("item_0", id, <<split>>), X_test |-> Ext("item_1", id, <<split>>),
     y_train |-> Ext("item_2", id, <<split>>), y_test |-> Ext("item_3", id, <<split>>)]

\* Lines 224-225 and the two metric calls of lines 228-229, arguments in
\* the order written there.
Predictions(X_test, id) ==
    [y_prediction |-> Ext("predict", id, <<X_test>>),
     y_pred_probas |-> Ext("column_1", id, <<Ext("predict_proba", id, <<X_test>>)>>)]
accuracy_score(a, b, id) == Ext("accuracy_score", id, <<a, b>>)
roc_auc_score(a, b, id) == Ext("roc_auc_score", id, <<a, b>>)

\* logistic_regression() (lines 190-229) as call number id under e:
\* the wrapper's attributes afterwards, the lines printed, the exception
\* that escaped and the library callables invoked.  The name on line 197
\* is read from the module's namespace when the call runs; lines 217-229
\* run only when fit returned.
logistic_regression(s, id, e) ==
    LET chk == _check_inputs(s) IN
    IF chk.raised # "none"
    THEN [self |-> s, out |-> chk.out, raised |-> chk.raised, calls |-> <<>>]
    ELSE IF chk.ret # True
    THEN [self |-> s, out |-> chk.out, raised |-> "none", calls |-> <<>>]
    ELSE
    LET clf == Construct(Global("LogisticRegression"), ConfigOf(s), id)
        s1 == SetAttr(s, "regression", clf)
        split == train_test_split(s.attributes, s.labels, s.test_size, id)
        X_test == split.X_test
        y_test == split.y_test
        c1 == <<"LogisticRegression", "train_test_split">>
    IN
    IF e.split = "raise"
    THEN [self |-> s1, out |-> <<>>, raised |-> "ValueError", calls |-> c1]
    ELSE IF FitRaises(clf, e)
    THEN LET h == FitHandler(s1, FitMessage(clf))
             c2 == IF HasMethod(clf, "fit") THEN c1 \o <<"np.ravel", "fit">> ELSE c1
         IN [self |-> h.self, out |-> h.out, raised |-> "none", calls |-> c2]
    ELSE
    LET s2 == RecordFit(s1, id)
        p == Predictions(X_test, id)
        s3 == SetAttr(s2, "accuracy", accuracy_score(p.y_prediction, y_test, id))
        c3 == c1 \o <<"np.ravel", "fit", "predict", "predict_proba",
                      "accuracy_score", "roc_auc_score">>
    IN
    IF e.roc = "raise"
    THEN [self |-> s3, out |-> <<>>, raised |-> "ValueError", calls |-> c3]
    ELSE [self |-> SetAttr(s3, "roc_auc",
                           roc_auc_score(p.y_prediction, p.y_pred_probas, id)),
          out |-> <<>>, raised |-> "none", calls |-> c3]

\* ------------------------------------------------------------ the history

\* The inputs the specification calls valid: both data references are
\* arrays, of the same row count, and test_size is unset or a number.
ValidInputs(s) ==
    /\ HasShape(s.attributes) /\ HasShape(s.labels)
    /\ s.attributes.rows = s.labels.rows
    /\ s.test_size.kind \in {"NoneType", "int", "float", "bool"}

\* The library does its part: nothing it is asked to do raises.
Cooperative(e) == e.split = "ok" /\ e.fit = "ok" /\ e.roc = "ok"

\* scenario counts the steps of "a run the specification expects to
\* succeed (valid inputs, cooperative library); set_attributes; such a run
\* again": 1 after the first run, 2 once the features were replaced, 3 after
\* the second run.  Any other run starts over.
Scenario_run(sc, s, e) ==
    IF ValidInputs(s) /\ Cooperative(e) THEN (IF sc = 2 THEN 3 ELSE 1) ELSE 0
Scenario_set_attributes(sc) == IF sc = 0 THEN 0 ELSE 2

\* ---------------------------------------------------------------- actions

Init ==
    /\ \E a \in DataValues, l \in DataValues, t \in TestSizeValues :
           self = __init__(a, l, t, Defaults)
    /\ nruns = 0
    /\ last = "__init__"
    /\ ret = None
    /\ out = <<>>
    /\ raised = "none"
    /\ calls = <<>>
    /\ env = NoEnv
    /\ scenario = 0

\* A call that returns None and prints nothing.
Quiet(op) == last' = op /\ ret' = None /\ out' = <<>> /\ raised' = "none"

\* A call of an accessor.
Read(op, r) == last' = op /\ ret' = r.ret /\ out' = <<>> /\ raised' = r.raised

Call_set_attributes ==
    /\ \E v \in DataValues : self' = set_attributes(self, v)
    /\ Quiet("set_attributes")
    /\ scenario' = Scenario_set_attributes(scenario)
    /\ UNCHANGED <<nruns, calls, env>>

Call_set_labels ==
    /\ \E v \in DataValues : self' = set_labels(self, v)
    /\ Quiet("set_labels")
    /\ UNCHANGED <<nruns, calls, env, scenario>>

Call_set_test_size ==
    /\ \E v \in TestSizeValues : self' = set_test_size(self, v)
    /\ Quiet("set_test_size")
    /\ UNCHANGED <<nruns, calls, env, scenario>>

Call_get_attributes ==
    Read("get_attributes", get_attributes(self))
    /\ UNCHANGED <<self, nruns, calls, env, scenario>>

Call_get_labels ==
    Read("get_labels", get_labels(self))
    /\ UNCHANGED <<self, nruns, calls, env, scenario>>

Call_get_classes ==
    Read("get_classes", get_classes(self))
    /\ UNCHANGED <<self, nruns, calls, env, scenario>>

Call_get_regression ==
    Read("get_regression", get_regression(self))
    /\ UNCHANGED <<self, nruns, calls, env, scenario>>

Call_get_coefficents ==
    Read("get_coefficents", get_coefficents(self))
    /\ UNCHANGED <<self, nruns, calls, env, scenario>>

Call_get_n_iter_ ==
    Read("get_n_iter_", get_n_iter_(self))
    /\ UNCHANGED <<self, nruns, calls, env, scenario>>

Call_get_accuracy ==
    Read("get_accuracy", get_accuracy(self))
    /\ UNCHANGED <<self, nruns, calls, env, scenario>>

Call_get_roc_auc ==
    Read("get_roc_auc", get_roc_auc(self))
    /\ UNCHANGED <<self, nruns, calls, env, scenario>>

\* _check_inputs() called on its own.
Call__check_inputs ==
    LET r == _check_inputs(self) IN
    /\ last' = "_check_inputs"
    /\ ret' = r.ret
    /\ out' = r.out
    /\ raised' = r.raised
    /\ UNCHANGED <<self, nruns, calls, env, scenario>>

\* logistic_regression(): the whole call, under each behaviour of the library.
Call_logistic_regression ==
    /\ nruns < MaxRuns
    /\ \E e \in Envs :
         LET r == logistic_regression(self, nruns + 1, e) IN
         /\ self' = r.self
         /\ nruns' = nruns + 1
         /\ last' = "logistic_regression"
         /\ ret' = None
         /\ out' = r.out
         /\ raised' = r.raised
         /\ calls' = r.calls
         /\ env' = IF r.calls = <<>> THEN NoEnv ELSE e
         /\ scenario' = Scenario_run(scenario, self, e)

Next ==
    \/ Call_set_attributes
    \/ Call_set_labels
    \/ Call_set_test_size
    \/ Call_get_attributes
    \/ Call_get_labels
    \/ Call_get_classes
    \/ Call_get_regression
    \/ Call_get_coefficents
    \/ Call_get_n_iter_
    \/ Call_get_accuracy
    \/ Call_get_roc_auc
    \/ Call__check_inputs
    \/ Call_logistic_regression

Spec == Init /\ [][Next]_vars

\* ------------------------------------------------- what the claims speak of

\* The attributes a run records its results in: those __init__ creates and
\* the two that only lines 218-219 create.
OutputAttrs ==
    {"classes_", "coef_", "coefficients", "intercept_", "intercept", "n_iter_",
     "accuracy", "roc_auc"}

\* No output attribute holds a value.
OutputsNull(s) == \A n \in OutputAttrs \cap DOMAIN s : s[n] = None

\* The accessors of the output fields.
OutputAccessors ==
    {"get_regression", "get_classes", "get_coefficents", "get_n_iter_",
     "get_accuracy", "get_roc_auc"}

\* The four preconditions, as the specification words them.
FeaturesUnset(s) == s.attributes = None
LabelsUnset(s) == s.labels = None
RowsDiffer(s) ==
    /\ HasShape(s.attributes) /\ HasShape(s.labels)
    /\ s.attributes.rows # s.labels.rows
TestSizeNotNumeric(s) == s.test_size.kind \notin {"NoneType", "int", "float", "bool"}
PreconditionFails(s) ==
    FeaturesUnset(s) \/ LabelsUnset(s) \/ RowsDiffer(s) \/ TestSizeNotNumeric(s)

\* The data references the preconditions speak of: a reference is unset, or
\* both are matrices (values with a row count).
RowCountsDefined(s) ==
    FeaturesUnset(s) \/ LabelsUnset(s) \/ (HasShape(s.attributes) /\ HasShape(s.labels))

\* The diagnostics of the preconditions that fail in s.
FailingDiagnostics(s) ==
    (IF FeaturesUnset(s) THEN {AttributesMissing} ELSE {})
    \cup (IF LabelsUnset(s) THEN {LabelsMissing} ELSE {})
    \cup (IF RowsDiffer(s) THEN {RowsMismatch} ELSE {})
    \cup (IF TestSizeNotNumeric(s) THEN {TestSizeNotNumber} ELSE {})

\* The last call was a logistic_regression() that ended in the except clause.
FitFailed ==
    /\ last = "logistic_regression"
    /\ Len(out) = 3
    /\ out[1] = TrainingFailed

\* The last call was a logistic_regression() on valid inputs in which the
\* library raised nothing: the run the specification expects to succeed.
ExpectedSuccess ==
    /\ last = "logistic_regression"
    /\ ValidInputs(self)
    /\ Cooperative(env)

\* v was produced by the library in run number id.
ProducedIn(v, id) == v.kind = "result" /\ v.run = id

\* ------------------------------------------------------------------ claims

\* C1: a logistic_regression() on a feature matrix and a label vector that
\* are both set and have the same row count, with a numeric or unset
\* test_size, ends with accuracy and roc_auc populated by the two metric
\* functions (stated here for the runs in which the library raises nothing).
C1_RunPopulatesMetrics ==
    ExpectedSuccess =>
        /\ raised = "none"
        /\ get_accuracy(self).ret.kind = "result"
        /\ get_roc_auc(self).ret.kind = "result"

\* C2: no exception escapes logistic_regression(), whatever the constructor
\* and the setters installed and whatever the library's functions do.
C2_NoExceptionEscapes ==
    last = "logistic_regression" => raised = "none"

C5_AccessorsReturnNone ==
    (nruns = 0 /\ last \in OutputAccessors) =>
        /\ raised = "none"
        /\ ret = None

\* C5 again, for the wrapper whose logistic_regression() calls were all
\* aborted by the splitter.
C5_AccessorsReturnNoneAfterAbort ==
    (last = "get_regression" /\ calls = <<"LogisticRegression", "train_test_split">>
        /\ env.split = "raise") =>
        ret = None

\* C6: after a logistic_regression() whose fit succeeded, get_classes(),
\* get_coefficents() and get_n_iter_() return what that run's fitted
\* classifier holds as classes_, coef_ and n_iter_ (the run whose fit is to
\* succeed being the one on valid inputs in which the library raises
\* nothing).
C6_AccessorsReturnFittedValues ==
    ExpectedSuccess =>
        /\ get_classes(self) = [ret |-> Ext("classes_", nruns, <<>>), raised |-> "none"]
        /\ get_coefficents(self) = [ret |-> Ext("coef_", nruns, <<>>), raised |-> "none"]
        /\ get_n_iter_(self) = [ret |-> Ext("n_iter_", nruns, <<>>), raised |-> "none"]

C8_SecondRunOverwrites ==
    (last = "logistic_regression" /\ scenario = 3) =>
        /\ self.regression.kind = "object" /\ self.regression.id = nruns
        /\ ProducedIn(get_classes(self).ret, nruns)
        /\ ProducedIn(get_coefficents(self).ret, nruns)
        /\ ProducedIn(self.intercept_, nruns)
        /\ ProducedIn(get_n_iter_(self).ret, nruns)
        /\ ProducedIn(get_accuracy(self).ret, nruns)
        /\ ProducedIn(get_roc_auc(self).ret, nruns)

\* C9: set_attributes, set_labels and set_test_size validate nothing, print
\* nothing, raise nothing, and replace their own attribute only: every
\* other attribute of the wrapper (configuration, the other data
\* reference, classifier reference, output fields) is as it was.
C9_SettersReplaceOwnFieldOnly ==
    [][ \A f \in {"attributes", "labels", "test_size"} :
            last' = "set_" \o f =>
                /\ raised' = "none" /\ out' = <<>>
                /\ DOMAIN self' = DOMAIN self
                /\ \A n \in DOMAIN self \ {f} : self'[n] = self[n] ]_vars

\* set_labels() took a value that is no array, and the classifier reference
\* an aborted run left behind is still there.
C9_Witness ==
    /\ last = "set_labels"
    /\ self.labels = List
    /\ self.regression # None
    /\ nruns > 0

\* C10: in a successful logistic_regression(), accuracy is accuracy_score
\* of the predicted labels and the true labels of the test partition, and
\* roc_auc is roc_auc_score with the predicted labels as its score input
\* (its second argument); the successful run being the one on valid inputs
\* in which the library raises nothing.
C10_MetricInputs ==
    ExpectedSuccess =>
        LET part == train_test_split(self.attributes, self.labels, self.test_size, nruns)
            pred == Predictions(part.X_test, nruns).y_prediction
        IN /\ get_accuracy(self).ret = accuracy_score(pred, part.y_test, nruns)
           /\ ProducedIn(get_roc_auc(self).ret, nruns)
           /\ get_roc_auc(self).ret.fn = "roc_auc_score"
           /\ get_roc_auc(self).ret.args[2] = pred

====
